---- MODULE Spec2Model ----
(***************************************************************************)
(* Verification model of the video automation server.                      *)
(*                                                                         *)
(* The repository holds several independent components; each is modelled   *)
(* as its own state machine over its own group of variables and has its    *)
(* own specification:                                                      *)
(*   Spec       the cron-driven AutomationScheduler with the isRunning     *)
(*              entry guard (src/unnamed/part_000)                         *)
(*              and the routes that start and stop it                      *)
(*              (src/unnamed/part_011)                                     *)
(*   RestartSpec  the same scheduler with initialize() followed twice      *)
(*   QuotaSpec  the configurable AutomationScheduler with the daily quota  *)
(*              (src/unnamed/part_001, first class)                        *)
(*   OverlapSpec  the same scheduler with two cycles followed at once      *)
(*   ServerSpec the upload automation loop of the server                   *)
(*              (src/src/server.ts)                                        *)
(*   ProducerSpec  the createVideo pipelines and the files they leave on   *)
(*              disk (src/src/services/youtubeService.ts,                  *)
(*              src/src/services/ContentEngine.ts, src/unnamed/part_004)   *)
(*   ScriptSpec the VideoProducer that cuts the narration into timed       *)
(*              segments (src/unnamed/part_006)                            *)
(*   AssemblySpec  the assembly stage of the producers: the scenes and the *)
(*              mux of visuals and audio (src/unnamed/part_006,            *)
(*              src/src/services/youtubeService.ts, src/unnamed/part_004)  *)
(*   LiveSpec   Spec with the steps that always settle taken eventually    *)
(***************************************************************************)
EXTENDS Integers, Sequences, FiniteSets, Bags, TLC

(* ----------------------------- bounds --------------------------------- *)

\* how many generateDailyContent bodies the model lets be in flight at once
MaxRuns == 2
\* how many times initialize() is called
MaxInit == 1
\* the same cap where repeated registration is followed
MaxRestarts == 2
\* cap on status.totalVideosProd
MaxVideos == 2
\* cap on the number of errors ever recorded in status.errors
MaxErrors == 11

\* how many executeAutomationCycle bodies the model lets be in flight
MaxCycles == 1
\* largest maxVideosPerDay a caller passes to startScheduler/updateConfig
MaxQuota == 1
\* how many cycles the model lets end counted (as successful or failed run)
MaxOutcomes == 1
\* the same two caps where overlapping cycles are followed
MaxOverlap == 2
MaxCounted == 2
\* cap on the scheduled fires counted within one day
MaxFires == 2

\* how many automatedVideoUpload bodies the model lets be in flight
MaxUploads == 2
\* cap on the counters of stats
MaxStat == 2

\* how many createVideo calls the model follows
MaxJobs == 1
\* largest number of segments of a script
MaxSegments == 2

\* largest number of pieces a narration text is put together from
MaxPieces == 4

\* how many times the millisecond clock of the server moves on
MaxClock == 1

\* largest number of segments of a script that is assembled
MaxScenes == 3
\* largest estimated duration of a segment, and of the audio, in seconds
MaxSeconds == 2
\* largest number of background images the image search returns
MaxImages == 2

(* ------------------------ program constants --------------------------- *)

\* performCleanup keeps the last 10 errors: errors.slice(-10)
ErrorKeep == 10
\* initialize() registers 5 cron tasks: daily, frequent, trending,
\* monitoring, cleanup
TasksPerInit == 5
\* the constructor's config.maxVideosPerDay
DefaultMaxVideosPerDay == 6

(* ===================================================================== *)
(* AutomationScheduler (src/unnamed/part_000)                             *)
(* ===================================================================== *)

VARIABLES
  tasks,          \* this.tasks.length: number of registered cron tasks
  startedTasks,   \* how many of them (a prefix of this.tasks) are started
  status,         \* this.status: isRunning, lastRun, nextRun,
                  \* totalVideosProd, errors
  runs,           \* bag of generateDailyContent bodies in flight, each
                  \* [pc, origin]: the await it is suspended at and who
                  \* called it
  errorsRecorded, \* history: number of errors ever pushed to status.errors
  event,          \* history: the last operation that ran
  triggerResult   \* the ContentResult the last triggerContentGeneration()
                  \* call returned (NoResult before any returned)

schedVars == <<tasks, startedTasks, status, runs, errorsRecorded, event,
               triggerResult>>

\* the quota scheduler (src/unnamed/part_001, first class)
VARIABLES
  cronJob,             \* this.cronJob: "null", "started" or "stopped"
  isRunning,           \* this.isRunning
  config,              \* this.config: enabled, maxVideosPerDay
  quotaStatus,         \* this.status: isRunning, nextRun, lastRun,
                       \* totalVideosProduced, successfulRuns, failedRuns
  videosCreatedToday,  \* this.videosCreatedToday
  lastResetDate,       \* this.lastResetDate, as it compares with today's
                       \* date: "" (never set), "today" or "earlier"
  cycles,              \* bag of executeAutomationCycle bodies in flight,
                       \* each the await it is suspended at
  dbInit,              \* whether initializeFromDatabase is still pending
  firesToday,          \* history: scheduled fires since the day or the
                       \* quota last changed
  lastFire,            \* history: what the latest of them did
  createdSinceMidnight \* history: videos counted since the day changed

quotaVars == <<cronJob, isRunning, config, quotaStatus, videosCreatedToday,
               lastResetDate, cycles, dbInit, firesToday, lastFire,
              createdSinceMidnight>>

\* the server automation loop (src/src/server.ts)
VARIABLES
  systemRunning,  \* let systemRunning
  authenticated,  \* whether the OAuth tokens are loaded and saved
  stats,          \* let stats: totalUploaded, todayUploaded, errors,
                  \* lastError (whether non-null), nextUpload (whether
                  \* non-null)
  uploads,        \* bag of automatedVideoUpload bodies in flight, each the
                  \* await it is suspended at and its videoPath
  clock,          \* Date.now()
  mediaFiles      \* the videoPaths that exist in temp_videos, each named
                  \* by the Date.now() it was made from

serverVars ==
  <<systemRunning, authenticated, stats, uploads, clock, mediaFiles>>

\* the video producers and the disk
VARIABLES
  jobs,        \* the createVideo calls: producer, pc, segments left,
               \* visuals obtained, failedAt, result
  tempDirs,    \* the jobs whose per-run temporary directory exists
  videoFiles   \* the output media files on disk: [job, complete]

producerVars == <<jobs, tempDirs, videoFiles>>

VARIABLES
  script,          \* config.script of the latest createVideo call of part_006
  scriptSegments,  \* what parseScript returned in that call
  production       \* where that call stands

scriptVars == <<script, scriptSegments, production>>

VARIABLES
  assembly     \* the assembly stage of one createVideo call: what it was
               \* given, the scenes of the visual stream, the output

VARIABLES
  backgrounds  \* the generateBackgroundImages call of part_004: the count
               \* asked for, the outcome of each image, what it returned

assemblyVars == <<assembly, backgrounds>>

vars ==
  <<schedVars, quotaVars, serverVars, producerVars, scriptVars, assemblyVars>>

\* the awaits of generateDailyContent, in order
RunPcs == {"hunting", "scripting", "producing", "logging"}
Origins == {"scheduled", "manual"}

InFlight == BagCardinality(runs)

\* An entry of status.errors is the serial number of its recording: the
\* message strings are distinct events in recording order, which is all
\* the scheduler ever does with them (push, length, slice).
RecordError(st, n) == [st EXCEPT !.errors = Append(@, n)]

\* errors.slice(-10)
SliceLast(s, k) ==
  IF Len(s) <= k THEN s ELSE SubSeq(s, Len(s) - k + 1, Len(s))

\* no triggerContentGeneration() call has returned yet
NoResult == [returned |-> FALSE]

\* constructor
SchedInit ==
  /\ tasks = 0
  /\ startedTasks = 0
  /\ status = [isRunning |-> FALSE, lastRun |-> "null", nextRun |-> "null",
               totalVideosProd |-> 0, errors |-> <<>>]
  /\ runs = EmptyBag
  /\ errorsRecorded = 0
  /\ event = "constructed"
  /\ triggerResult = NoResult

\* initialize(): the four setup methods push 2 + 1 + 1 + 1 tasks, each
\* created with scheduled: false
\* (initCap: how many initialize() calls the model follows)
Initialize(initCap) ==
  /\ tasks < initCap * TasksPerInit
  /\ tasks' = tasks + TasksPerInit
  /\ event' = "initialize"
  /\ UNCHANGED <<startedTasks, status, runs, errorsRecorded, triggerResult>>

\* start(): starts every registered task and sets status.isRunning
StartStatus(st) == [st EXCEPT !.isRunning = TRUE, !.nextRun = "date"]

Start ==
  /\ startedTasks' = tasks
  /\ status' = StartStatus(status)
  /\ event' = "start"
  /\ UNCHANGED <<tasks, runs, errorsRecorded, triggerResult>>

\* stop(): stops every registered task and clears status.isRunning
StopStatus(st) == [st EXCEPT !.isRunning = FALSE, !.nextRun = "null"]

\* a stop() that would also drop the runs in flight
StopCancels ==
  /\ startedTasks' = 0
  /\ status' = StopStatus(status)
  /\ runs' = EmptyBag
  /\ event' = "stop"
  /\ UNCHANGED <<tasks, errorsRecorded, triggerResult>>

Stop ==
  /\ startedTasks' = 0
  /\ status' = StopStatus(status)
  /\ event' = "stop"
  /\ UNCHANGED <<tasks, runs, errorsRecorded, triggerResult>>

(* ---- generateDailyContent: entry (synchronous up to the first await) -- *)

\* if (this.status.isRunning) { ...; return; }
GuardBlocks(st) == st.isRunning

\* this.status.isRunning = true; this.status.lastRun = new Date();
EnterRun(st) == [st EXCEPT !.isRunning = TRUE, !.lastRun = "date"]

\* what triggerContentGeneration() returns once generateDailyContent()
\* has returned; generateDailyContent catches every error itself, so the
\* catch branch of the trigger is never taken
TriggerReturn == [success |-> TRUE]

\* one call of generateDailyContent() by `origin`: skipped by the guard,
\* or started and suspended at the trend hunt
GenerateDailyContent(origin, skipped, began) ==
  IF GuardBlocks(status)
  THEN /\ event' = skipped
       /\ triggerResult' =
            IF origin = "manual" THEN TriggerReturn ELSE triggerResult
       /\ UNCHANGED <<tasks, startedTasks, status, runs, errorsRecorded>>
  ELSE /\ InFlight < MaxRuns
       /\ status' = EnterRun(status)
       /\ runs' = runs (+) SetToBag({[pc |-> "hunting", origin |-> origin]})
       /\ event' = began
       /\ UNCHANGED <<tasks, startedTasks, errorsRecorded, triggerResult>>

\* a fire of dailyTask or frequentTask; a cron task fires only while started
ScheduledFire ==
  /\ startedTasks > 0
  /\ GenerateDailyContent("scheduled", "fireSkipped", "fireStarted")

\* triggerContentGeneration()
ManualTrigger ==
  GenerateDailyContent("manual", "triggerSkipped", "triggerStarted")

(* ---- generateDailyContent: the awaited steps and the exits ----------- *)

\* a finally block that leaves status.isRunning as it is
FinallyKeepsFlag(st) == st

\* finally { this.status.isRunning = false; }
Finally(st) == [st EXCEPT !.isRunning = FALSE]

\* catch: errors.push(`Content generation error: ...`), then finally
FailRun(st, n) == Finally(RecordError(st, n))

Replace(r, pc) == (runs (-) SetToBag({r})) (+) SetToBag({[r EXCEPT !.pc = pc]})

\* the run leaves generateDailyContent; a manual one makes its
\* triggerContentGeneration() call return
Leave(r) ==
  /\ runs' = runs (-) SetToBag({r})
  /\ triggerResult' =
       IF r.origin = "manual" THEN TriggerReturn ELSE triggerResult

\* a step of the try block throws: no trending topics, content generation
\* failed, video production failed, or a collaborator call rejected
RunFails(r) ==
  /\ errorsRecorded < MaxErrors
  /\ errorsRecorded' = errorsRecorded + 1
  /\ status' = FailRun(status, errorsRecorded + 1)
  /\ Leave(r)
  /\ event' = "runFailed"
  /\ UNCHANGED <<tasks, startedTasks>>

\* the step succeeded: the run goes on to the next await
RunAdvances(r, pc) ==
  /\ runs' = Replace(r, pc)
  /\ event' = pc
  /\ UNCHANGED <<tasks, startedTasks, status, errorsRecorded, triggerResult>>

\* huntTrendingVideos(10) settles
HuntReturns(r, ok) ==
  /\ r \in BagToSet(runs) /\ r.pc = "hunting"
  /\ IF ok THEN RunAdvances(r, "scripting") ELSE RunFails(r)

\* generateVideoContent(...) settles
ScriptReturns(r, ok) ==
  /\ r \in BagToSet(runs) /\ r.pc = "scripting"
  /\ IF ok THEN RunAdvances(r, "producing") ELSE RunFails(r)

\* a counter that is bumped twice for one video
CountVideoTwice(st) == [st EXCEPT !.totalVideosProd = @ + 2]

\* this.status.totalVideosProd++
CountVideo(st) == [st EXCEPT !.totalVideosProd = @ + 1]

\* videoProducer.createVideo(...) settles; on success the counter is
\* incremented before logVideoCreation is awaited
ProduceReturns(r, ok) ==
  /\ r \in BagToSet(runs) /\ r.pc = "producing"
  /\ IF ok
     THEN /\ status.totalVideosProd < MaxVideos
          /\ status' = CountVideo(status)
          /\ runs' = Replace(r, "logging")
          /\ event' = "logging"
          /\ UNCHANGED <<tasks, startedTasks, errorsRecorded, triggerResult>>
     ELSE RunFails(r)

\* how the run-log insert of a completed run went
CompletedEvents == {"runCompleted", "runCompletedUnlogged"}

\* a logVideoCreation that lets the error of the insert through to the
\* catch of generateDailyContent
LogRethrows(r, ok) ==
  /\ r \in BagToSet(runs) /\ r.pc = "logging"
  /\ IF ok
     THEN /\ status' = Finally(status)
          /\ Leave(r)
          /\ event' = "runCompleted"
          /\ UNCHANGED <<tasks, startedTasks, errorsRecorded>>
     ELSE RunFails(r)

\* logVideoCreation settles: the insert into video_logs was made, or it
\* threw and the catch of logVideoCreation logged the error; then finally
LogReturns(r, ok) ==
  /\ r \in BagToSet(runs) /\ r.pc = "logging"
  /\ status' = Finally(status)
  /\ Leave(r)
  /\ event' = IF ok THEN "runCompleted" ELSE "runCompletedUnlogged"
  /\ UNCHANGED <<tasks, startedTasks, errorsRecorded>>

(* ---- the other cron tasks -------------------------------------------- *)

\* analyzeTrendingContent / monitorPerformance, from their cron tasks or
\* (the analysis) from triggerTrendingAnalysis(): all they do to the
\* scheduler is push an error when a call throws
BackgroundTask(name, ok) ==
  /\ name = "monitored" => startedTasks > 0
  /\ IF ok
     THEN UNCHANGED <<status, errorsRecorded>>
     ELSE /\ errorsRecorded < MaxErrors
          /\ errorsRecorded' = errorsRecorded + 1
          /\ status' = RecordError(status, errorsRecorded + 1)
  /\ event' = name
  /\ UNCHANGED <<tasks, startedTasks, runs, triggerResult>>

\* if (errors.length > 10) errors = errors.slice(-10)
TrimErrors(st) == [st EXCEPT !.errors = SliceLast(@, ErrorKeep)]

\* performCleanup from the cleanup cron task: trims the errors, then the
\* database deletes may throw, which pushes a cleanup error
PerformCleanup(ok) ==
  /\ startedTasks > 0
  /\ IF ok
     THEN /\ status' = TrimErrors(status)
          /\ UNCHANGED errorsRecorded
     ELSE /\ errorsRecorded < MaxErrors
          /\ errorsRecorded' = errorsRecorded + 1
          /\ status' = RecordError(TrimErrors(status), errorsRecorded + 1)
  /\ event' = "cleaned"
  /\ UNCHANGED <<tasks, startedTasks, runs, triggerResult>>

(* ---- the scheduler control routes (src/unnamed/part_011) ------------- *)

\* POST /scheduler/start: 409 when getStatus().isRunning, else
\* scheduler.initialize(); scheduler.start(); and the default status 200.
\* The event records the route and the status it answered with.
PostSchedulerStart(initCap) ==
  IF status.isRunning
  THEN /\ event' = "schedulerStart409"
       /\ UNCHANGED <<tasks, startedTasks, status, runs, errorsRecorded,
                      triggerResult>>
  ELSE /\ tasks < initCap * TasksPerInit
       /\ tasks' = tasks + TasksPerInit
       /\ startedTasks' = tasks + TasksPerInit
       /\ status' = StartStatus(status)
       /\ event' = "schedulerStart200"
       /\ UNCHANGED <<runs, errorsRecorded, triggerResult>>

\* POST /scheduler/stop: 409 when not getStatus().isRunning, else
\* scheduler.stop() and the default status 200
PostSchedulerStop ==
  IF ~status.isRunning
  THEN /\ event' = "schedulerStop409"
       /\ UNCHANGED <<tasks, startedTasks, status, runs, errorsRecorded,
                      triggerResult>>
  ELSE /\ startedTasks' = 0
       /\ status' = StopStatus(status)
       /\ event' = "schedulerStop200"
       /\ UNCHANGED <<tasks, runs, errorsRecorded, triggerResult>>

RunSlots == [pc : RunPcs, origin : Origins]

\* the other components take no part in a scheduler step
OnlySched ==
  UNCHANGED <<quotaVars, serverVars, producerVars, scriptVars, assemblyVars>>

SchedNext ==
  \/ Initialize(MaxInit) /\ OnlySched
  \/ Start /\ OnlySched
  \/ Stop /\ OnlySched
  \/ ScheduledFire /\ OnlySched
  \/ ManualTrigger /\ OnlySched
  \/ \E r \in RunSlots, ok \in BOOLEAN : HuntReturns(r, ok) /\ OnlySched
  \/ \E r \in RunSlots, ok \in BOOLEAN : ScriptReturns(r, ok) /\ OnlySched
  \/ \E r \in RunSlots, ok \in BOOLEAN : ProduceReturns(r, ok) /\ OnlySched
  \/ \E r \in RunSlots, ok \in BOOLEAN : LogReturns(r, ok) /\ OnlySched
  \/ \E name \in {"analyzed", "monitored"}, ok \in BOOLEAN :
       BackgroundTask(name, ok) /\ OnlySched
  \/ \E ok \in BOOLEAN : PerformCleanup(ok) /\ OnlySched
  \/ PostSchedulerStart(MaxInit) /\ OnlySched
  \/ PostSchedulerStop /\ OnlySched

\* the same steps with repeated registration followed
RestartNext ==
  \/ Initialize(MaxRestarts) /\ OnlySched
  \/ Start /\ OnlySched
  \/ Stop /\ OnlySched
  \/ ScheduledFire /\ OnlySched
  \/ ManualTrigger /\ OnlySched
  \/ \E r \in RunSlots, ok \in BOOLEAN : HuntReturns(r, ok) /\ OnlySched
  \/ \E r \in RunSlots, ok \in BOOLEAN : ScriptReturns(r, ok) /\ OnlySched
  \/ \E r \in RunSlots, ok \in BOOLEAN : ProduceReturns(r, ok) /\ OnlySched
  \/ \E r \in RunSlots, ok \in BOOLEAN : LogReturns(r, ok) /\ OnlySched
  \/ \E name \in {"analyzed", "monitored"}, ok \in BOOLEAN :
       BackgroundTask(name, ok) /\ OnlySched
  \/ \E ok \in BOOLEAN : PerformCleanup(ok) /\ OnlySched
  \/ PostSchedulerStart(MaxRestarts) /\ OnlySched
  \/ PostSchedulerStop /\ OnlySched

(* ===================================================================== *)
(* AutomationScheduler with the daily quota (src/unnamed/part_001)        *)
(* ===================================================================== *)

\* the awaits of executeAutomationCycle, in order; "loggingError" is the
\* await of logError in the catch block
CyclePcs == {"updating", "hunting", "generating", "producing", "uploading",
             "logging", "loggingError"}

CyclesInFlight == BagCardinality(cycles)

\* constructor; initializeFromDatabase() is called but not awaited
QuotaInit ==
  /\ cronJob = "null"
  /\ isRunning = FALSE
  /\ config = [enabled |-> FALSE, maxVideosPerDay |-> DefaultMaxVideosPerDay]
  /\ quotaStatus = [isRunning |-> FALSE, nextRun |-> "null",
                    lastRun |-> "null", totalVideosProduced |-> 0,
                    successfulRuns |-> 0, failedRuns |-> 0]
  /\ videosCreatedToday = 0
  /\ lastResetDate = ""
  /\ cycles = EmptyBag
  /\ dbInit = TRUE
  /\ firesToday = 0
  /\ lastFire = "none"
  /\ createdSinceMidnight = 0

\* { ...this.config, ...part }: a partial config gives each field as
\* <<v>> or leaves it out as <<>>
Merge(cfg, part) == [k \in DOMAIN cfg |->
                       IF part[k] = <<>> THEN cfg[k] ELSE part[k][1]]

Opt(S) == {<<>>} \cup {<<v>> : v \in S}

\* the partial configs callers pass
PartialConfigs == [enabled : Opt(BOOLEAN), maxVideosPerDay : Opt(1..MaxQuota)]

\* the automation_config row the database returns: its columns override
\* `enabled` only (max_videos_per_day is not a field of this.config)
ConfigRows == [enabled : Opt(BOOLEAN), maxVideosPerDay : {<<>>}]

\* the history counter of fires restarts when the quota changes
FiresAfterConfig(newCfg) ==
  IF newCfg.maxVideosPerDay = config.maxVideosPerDay
  THEN <<firesToday, lastFire>> ELSE <<0, "none">>

\* Reset daily counter if it's a new day
NewDayReset(count, resetDate) ==
  IF resetDate # "today" THEN <<0, "today">> ELSE <<count, resetDate>>

\* initializeFromDatabase() completes. The rows come back with the
\* database's column names: of the config only `enabled` (and interval,
\* niches) overrides a field, the status keeps its counters.
InitializeFromDatabase(row) ==
  /\ dbInit
  /\ dbInit' = FALSE
  /\ config' = Merge(config, row)
  /\ \E statusRow \in {"none", "null", "date"} :
       quotaStatus' = IF statusRow = "none" THEN quotaStatus
                      ELSE [quotaStatus EXCEPT !.nextRun = statusRow,
                                               !.lastRun = statusRow]
  /\ videosCreatedToday' =
       NewDayReset(videosCreatedToday, lastResetDate)[1]
  /\ lastResetDate' = NewDayReset(videosCreatedToday, lastResetDate)[2]
  /\ UNCHANGED <<cronJob, isRunning, cycles, firesToday, lastFire,
                 createdSinceMidnight>>

\* getNextRunTime()
GetNextRunTime(job, running) ==
  IF job = "null" \/ ~running THEN "null" ELSE "date"

\* startScheduler(config?)
StartScheduler(part) ==
  LET cfg == Merge(config, part) IN
  /\ config' = cfg
  /\ firesToday' = FiresAfterConfig(cfg)[1]
  /\ lastFire' = FiresAfterConfig(cfg)[2]
  /\ IF ~cfg.enabled
     THEN \* throws 'Scheduler is disabled in configuration'; an
          \* existing job has been stopped
          /\ cronJob' = IF cronJob = "null" THEN "null" ELSE "stopped"
          /\ UNCHANGED <<isRunning, quotaStatus>>
     ELSE /\ cronJob' = "started"
          /\ isRunning' = TRUE
          /\ quotaStatus' = [quotaStatus EXCEPT !.isRunning = TRUE,
                                !.nextRun = GetNextRunTime("started", TRUE)]
  /\ UNCHANGED <<videosCreatedToday, lastResetDate, cycles, dbInit, createdSinceMidnight>>

\* stopScheduler()
StopScheduler ==
  /\ cronJob' = "null"
  /\ isRunning' = FALSE
  /\ quotaStatus' = [quotaStatus EXCEPT !.isRunning = FALSE,
                        !.nextRun = "null"]
  /\ UNCHANGED <<config, videosCreatedToday, lastResetDate, cycles, dbInit,
                 firesToday, lastFire,
                 createdSinceMidnight>>

\* updateConfig(newConfig): merges, and restarts a running scheduler
\* (stopScheduler, then startScheduler, which throws when disabled)
UpdateConfig(part) ==
  LET cfg == Merge(config, part) IN
  /\ config' = cfg
  /\ firesToday' = FiresAfterConfig(cfg)[1]
  /\ lastFire' = FiresAfterConfig(cfg)[2]
  /\ IF ~isRunning
     THEN UNCHANGED <<cronJob, isRunning, quotaStatus>>
     ELSE IF cfg.enabled
     THEN /\ cronJob' = "started"
          /\ isRunning' = TRUE
          /\ quotaStatus' = [quotaStatus EXCEPT !.isRunning = TRUE,
                                !.nextRun = GetNextRunTime("started", TRUE)]
     ELSE /\ cronJob' = "null"
          /\ isRunning' = FALSE
          /\ quotaStatus' = [quotaStatus EXCEPT !.isRunning = FALSE,
                                !.nextRun = "null"]
  /\ UNCHANGED <<videosCreatedToday, lastResetDate, cycles, dbInit, createdSinceMidnight>>

\* a quota check that lets one more cycle through
QuotaExceeded(count, cfg) == count > cfg.maxVideosPerDay

\* if (this.videosCreatedToday >= this.config.maxVideosPerDay) return;
QuotaReached(count, cfg) == count >= cfg.maxVideosPerDay

\* one call of executeAutomationCycle(): skipped by the quota check, or
\* started (status.lastRun set) and suspended at updateStatus
\* (cycleCap: how many cycles the model lets be in flight)
ExecuteAutomationCycle(cycleCap) ==
  IF QuotaReached(videosCreatedToday, config)
  THEN UNCHANGED <<quotaStatus, cycles>>
  ELSE /\ CyclesInFlight < cycleCap
       /\ quotaStatus' = [quotaStatus EXCEPT !.lastRun = "date"]
       /\ cycles' = cycles (+) SetToBag({"updating"})

\* the cron job fires; it does so only while started
CronFire(cycleCap) ==
  /\ cronJob = "started"
  /\ firesToday < MaxFires
  /\ firesToday' = firesToday + 1
  /\ lastFire' = IF QuotaReached(videosCreatedToday, config)
                  THEN "skipped" ELSE "started"
  /\ ExecuteAutomationCycle(cycleCap)
  /\ UNCHANGED <<cronJob, isRunning, config, videosCreatedToday,
                 lastResetDate, dbInit, createdSinceMidnight>>

\* forceRunNow(): throws unless this.isRunning
ForceRunNow(cycleCap) ==
  /\ IF isRunning
     THEN ExecuteAutomationCycle(cycleCap)
     ELSE UNCHANGED <<quotaStatus, cycles>>
  /\ UNCHANGED <<cronJob, isRunning, config, videosCreatedToday,
                 lastResetDate, dbInit, firesToday, lastFire,
                 createdSinceMidnight>>

\* finally { this.status.nextRun = this.getNextRunTime(); ... }
CycleFinally(st) ==
  [st EXCEPT !.nextRun = GetNextRunTime(cronJob, isRunning)]

CycleMoves(pc, next) == cycles' = (cycles (-) SetToBag({pc})) (+) SetToBag({next})

CycleEnds(pc) == cycles' = cycles (-) SetToBag({pc})

\* an awaited call of the try block settles: the cycle goes on to the
\* next await, or the call throws and the catch block counts a failed
\* run and awaits logError
\* (countCap: how many cycles the model lets end counted)
CycleStep(pc, next, ok, countCap) ==
  /\ pc \in BagToSet(cycles)
  /\ IF ok
     THEN /\ CycleMoves(pc, next)
          /\ UNCHANGED quotaStatus
     ELSE /\ quotaStatus.successfulRuns + quotaStatus.failedRuns < countCap
          /\ quotaStatus' = [quotaStatus EXCEPT !.failedRuns = @ + 1]
          /\ CycleMoves(pc, "loggingError")
  /\ UNCHANGED <<cronJob, isRunning, config, videosCreatedToday,
                 lastResetDate, dbInit, firesToday, lastFire,
                 createdSinceMidnight>>

\* findTrendingVideos returned no video: the cycle returns early, through
\* finally, counting neither a success nor a failure
HuntFindsNothing ==
  /\ "hunting" \in BagToSet(cycles)
  /\ CycleEnds("hunting")
  /\ quotaStatus' = CycleFinally(quotaStatus)
  /\ UNCHANGED <<cronJob, isRunning, config, videosCreatedToday,
                 lastResetDate, dbInit, firesToday, lastFire,
                 createdSinceMidnight>>

\* this.videosCreatedToday++; totalVideosProduced++; successfulRuns++
CountSuccess(st) == [st EXCEPT !.totalVideosProduced = @ + 1,
                               !.successfulRuns = @ + 1]

\* logVideoCreation settled (it catches its own errors): the counters are
\* incremented, then finally
CycleSucceeds(countCap) ==
  /\ "logging" \in BagToSet(cycles)
  /\ quotaStatus.successfulRuns + quotaStatus.failedRuns < countCap
  /\ CycleEnds("logging")
  /\ videosCreatedToday' = videosCreatedToday + 1
  /\ createdSinceMidnight' = createdSinceMidnight + 1
  /\ quotaStatus' = CycleFinally(CountSuccess(quotaStatus))
  /\ UNCHANGED <<cronJob, isRunning, config, lastResetDate, dbInit, firesToday, lastFire>>

\* logError settled (it catches its own errors), then finally
ErrorLogged ==
  /\ "loggingError" \in BagToSet(cycles)
  /\ CycleEnds("loggingError")
  /\ quotaStatus' = CycleFinally(quotaStatus)
  /\ UNCHANGED <<cronJob, isRunning, config, videosCreatedToday,
                 lastResetDate, dbInit, firesToday, lastFire,
                 createdSinceMidnight>>

\* resetDailyCounter()
ResetDailyCounter ==
  /\ videosCreatedToday' = 0
  /\ lastResetDate' = "today"
  /\ UNCHANGED <<cronJob, isRunning, config, quotaStatus, cycles, dbInit,
                 firesToday, lastFire,
                 createdSinceMidnight>>

\* midnight passes: a date set before is no longer today's. The scheduler
\* has no task of its own for it.
DayChanges ==
  /\ lastResetDate' = IF lastResetDate = "today" THEN "earlier"
                      ELSE lastResetDate
  /\ firesToday' = 0
  /\ lastFire' = "none"
  /\ createdSinceMidnight' = 0
  /\ UNCHANGED <<cronJob, isRunning, config, quotaStatus,
                 videosCreatedToday, cycles, dbInit>>

\* the other components take no part in a quota scheduler step
OnlyQuota ==
  UNCHANGED <<schedVars, serverVars, producerVars, scriptVars, assemblyVars>>

QuotaNext ==
  \/ \E row \in ConfigRows : InitializeFromDatabase(row) /\ OnlyQuota
  \/ \E part \in PartialConfigs : StartScheduler(part) /\ OnlyQuota
  \/ StopScheduler /\ OnlyQuota
  \/ \E part \in PartialConfigs : UpdateConfig(part) /\ OnlyQuota
  \/ CronFire(MaxCycles) /\ OnlyQuota
  \/ ForceRunNow(MaxCycles) /\ OnlyQuota
  \/ CycleStep("updating", "hunting", TRUE, MaxOutcomes) /\ OnlyQuota
  \/ \E ok \in BOOLEAN :
       CycleStep("hunting", "generating", ok, MaxOutcomes) /\ OnlyQuota
  \/ HuntFindsNothing /\ OnlyQuota
  \/ \E ok \in BOOLEAN :
       CycleStep("generating", "producing", ok, MaxOutcomes) /\ OnlyQuota
  \/ \E ok \in BOOLEAN :
       CycleStep("producing", "uploading", ok, MaxOutcomes) /\ OnlyQuota
  \/ \E ok \in BOOLEAN :
       CycleStep("uploading", "logging", ok, MaxOutcomes) /\ OnlyQuota
  \/ CycleSucceeds(MaxOutcomes) /\ OnlyQuota
  \/ ErrorLogged /\ OnlyQuota
  \/ ResetDailyCounter /\ OnlyQuota
  \/ DayChanges /\ OnlyQuota

\* the same steps with overlapping cycles followed
OverlapNext ==
  \/ \E row \in ConfigRows : InitializeFromDatabase(row) /\ OnlyQuota
  \/ \E part \in PartialConfigs : StartScheduler(part) /\ OnlyQuota
  \/ StopScheduler /\ OnlyQuota
  \/ \E part \in PartialConfigs : UpdateConfig(part) /\ OnlyQuota
  \/ CronFire(MaxOverlap) /\ OnlyQuota
  \/ ForceRunNow(MaxOverlap) /\ OnlyQuota
  \/ CycleStep("updating", "hunting", TRUE, MaxCounted) /\ OnlyQuota
  \/ \E ok \in BOOLEAN :
       CycleStep("hunting", "generating", ok, MaxCounted) /\ OnlyQuota
  \/ HuntFindsNothing /\ OnlyQuota
  \/ \E ok \in BOOLEAN :
       CycleStep("generating", "producing", ok, MaxCounted) /\ OnlyQuota
  \/ \E ok \in BOOLEAN :
       CycleStep("producing", "uploading", ok, MaxCounted) /\ OnlyQuota
  \/ \E ok \in BOOLEAN :
       CycleStep("uploading", "logging", ok, MaxCounted) /\ OnlyQuota
  \/ CycleSucceeds(MaxCounted) /\ OnlyQuota
  \/ ErrorLogged /\ OnlyQuota
  \/ ResetDailyCounter /\ OnlyQuota
  \/ DayChanges /\ OnlyQuota

(* ===================================================================== *)
(* The server automation loop (src/src/server.ts)                         *)
(* ===================================================================== *)

\* the awaits of automatedVideoUpload and of the uploadToYoutube it calls:
\* videoGenerator.createVideo, fs.pathExists, youtube.videos.insert,
\* videoGenerator.cleanup
UploadPcs == {"creating", "checking", "inserting", "cleaning"}

UploadsInFlight == BagCardinality(uploads)

\* module load on a fresh deployment: no tokens are saved yet
ServerInit ==
  /\ systemRunning = FALSE
  /\ authenticated = FALSE
  /\ stats = [totalUploaded |-> 0, todayUploaded |-> 0, errors |-> 0,
              lastError |-> FALSE, nextUpload |-> FALSE]
  /\ uploads = EmptyBag
  /\ clock = 0
  /\ mediaFiles = {}

\* catch (error) { stats.errors++; stats.lastError = error.message; ... }
CountError(st) == [st EXCEPT !.errors = @ + 1, !.lastError = TRUE]

\* stats.totalUploaded++; stats.todayUploaded++; stats.lastError = null
CountUpload(st) == [st EXCEPT !.totalUploaded = @ + 1,
                              !.todayUploaded = @ + 1,
                              !.lastError = FALSE]

\* one call of automatedVideoUpload(): returns at once when the system is
\* not running, fails at the authentication check, or is suspended at
\* videoGenerator.createVideo (generateVideoContent awaits nothing), whose
\* videoPath is temp_videos/video_<Date.now()>.mp4
AutomatedVideoUpload ==
  /\ IF ~systemRunning
     THEN UNCHANGED <<stats, uploads>>
     ELSE IF ~authenticated
     THEN /\ stats.errors < MaxStat
          /\ stats' = CountError(stats)
          /\ UNCHANGED uploads
     ELSE /\ UploadsInFlight < MaxUploads
          /\ uploads' = uploads
                          (+) SetToBag({[pc |-> "creating", path |-> clock]})
          /\ UNCHANGED stats
  /\ UNCHANGED <<clock, mediaFiles>>

\* POST /api/start
ApiStart ==
  /\ IF authenticated
     THEN /\ systemRunning' = TRUE
          /\ stats' = [stats EXCEPT !.nextUpload = TRUE]
     ELSE UNCHANGED <<systemRunning, stats>>
  /\ UNCHANGED <<authenticated, uploads, clock, mediaFiles>>

\* POST /api/stop
ApiStop ==
  /\ systemRunning' = FALSE
  /\ stats' = [stats EXCEPT !.nextUpload = FALSE]
  /\ UNCHANGED <<authenticated, uploads, clock, mediaFiles>>

\* POST /api/upload-now
ApiUploadNow ==
  /\ AutomatedVideoUpload
  /\ UNCHANGED <<systemRunning, authenticated>>

\* POST /api/clear-errors
ApiClearErrors ==
  /\ stats' = [stats EXCEPT !.errors = 0, !.lastError = FALSE]
  /\ UNCHANGED <<systemRunning, authenticated, uploads, clock, mediaFiles>>

\* GET /auth/callback: the token exchange succeeds or not
AuthCallback(ok) ==
  /\ authenticated' = (authenticated \/ ok)
  /\ UNCHANGED <<systemRunning, stats, uploads, clock, mediaFiles>>

\* cron '0 */2 * * *'
ScheduledUpload ==
  /\ IF systemRunning
     THEN AutomatedVideoUpload
     ELSE UNCHANGED <<stats, uploads, clock, mediaFiles>>
  /\ UNCHANGED <<systemRunning, authenticated>>

\* cron '0 0 * * *'
DailyStatsReset ==
  /\ stats' = [stats EXCEPT !.todayUploaded = 0]
  /\ UNCHANGED <<systemRunning, authenticated, uploads, clock, mediaFiles>>

\* cron '*/30 * * * *': error recovery
ErrorRecovery ==
  /\ IF systemRunning /\ stats.lastError /\ stats.errors > 0
     THEN AutomatedVideoUpload
     ELSE UNCHANGED <<stats, uploads, clock, mediaFiles>>
  /\ UNCHANGED <<systemRunning, authenticated>>

\* POST /api/webhook with the right secret
Webhook(action) ==
  CASE action = "upload" ->
         /\ AutomatedVideoUpload
         /\ UNCHANGED <<systemRunning, authenticated>>
    [] action = "start" ->
         /\ systemRunning' = TRUE
         /\ UNCHANGED <<authenticated, stats, uploads, clock, mediaFiles>>
    [] action = "stop" ->
         /\ systemRunning' = FALSE
         /\ UNCHANGED <<authenticated, stats, uploads, clock, mediaFiles>>

UploadMoves(u, next) ==
  uploads' = (uploads (-) SetToBag({u}))
               (+) SetToBag({[u EXCEPT !.pc = next]})

UploadEnds(u) == uploads' = uploads (-) SetToBag({u})

\* the uploads suspended at pc
UploadsAt(pc) == {u \in BagToSet(uploads) : u.pc = pc}

\* videoGenerator.createVideo settles: fs.writeFile wrote videoPath, or
\* rejected; a rejection is counted by the catch of automatedVideoUpload
CreateVideoReturns(ok) ==
  /\ \E u \in UploadsAt("creating") :
       IF ok
       THEN /\ UploadMoves(u, "checking")
            /\ mediaFiles' = mediaFiles \cup {u.path}
            /\ UNCHANGED stats
       ELSE /\ stats.errors < MaxStat
            /\ UploadEnds(u)
            /\ stats' = CountError(stats)
            /\ UNCHANGED mediaFiles
  /\ UNCHANGED <<systemRunning, authenticated, clock>>

\* an await inside uploadToYoutube settles: fs.pathExists(videoPath), which
\* tells whether the file is there, or youtube.videos.insert, which returns
\* or throws; a failure is counted by the catch of uploadToYoutube and,
\* rethrown, by that of automatedVideoUpload
UploadStep(pc, next, ok) ==
  /\ \E u \in UploadsAt(pc) :
       /\ pc = "checking" => ok = (u.path \in mediaFiles)
       /\ IF ok
          THEN /\ UploadMoves(u, next)
               /\ UNCHANGED stats
          ELSE /\ stats.errors + 1 < MaxStat
               /\ UploadEnds(u)
               /\ stats' = CountError(CountError(stats))
  /\ UNCHANGED <<systemRunning, authenticated, clock, mediaFiles>>

\* videoGenerator.cleanup settled: fs.remove(videoPath) removed the file,
\* or threw and the error was only logged; the upload is counted and
\* automatedVideoUpload sets stats.nextUpload
UploadCompletes ==
  /\ stats.totalUploaded < MaxStat
  /\ \E u \in UploadsAt("cleaning") :
       /\ UploadEnds(u)
       /\ mediaFiles' \in {mediaFiles \ {u.path}, mediaFiles}
  /\ stats' = [CountUpload(stats) EXCEPT !.nextUpload = TRUE]
  /\ UNCHANGED <<systemRunning, authenticated, clock>>

\* a millisecond passes
ClockTicks ==
  /\ clock < MaxClock
  /\ clock' = clock + 1
  /\ UNCHANGED <<systemRunning, authenticated, stats, uploads, mediaFiles>>

\* the other components take no part in a server step
OnlyServer ==
  UNCHANGED <<schedVars, quotaVars, producerVars, scriptVars, assemblyVars>>

ServerNext ==
  \/ ApiStart /\ OnlyServer
  \/ ApiStop /\ OnlyServer
  \/ ApiUploadNow /\ OnlyServer
  \/ ApiClearErrors /\ OnlyServer
  \/ \E ok \in BOOLEAN : AuthCallback(ok) /\ OnlyServer
  \/ ScheduledUpload /\ OnlyServer
  \/ DailyStatsReset /\ OnlyServer
  \/ ErrorRecovery /\ OnlyServer
  \/ \E action \in {"upload", "start", "stop"} : Webhook(action) /\ OnlyServer
  \/ \E ok \in BOOLEAN : CreateVideoReturns(ok) /\ OnlyServer
  \/ \E ok \in BOOLEAN : UploadStep("checking", "inserting", ok) /\ OnlyServer
  \/ \E ok \in BOOLEAN : UploadStep("inserting", "cleaning", ok) /\ OnlyServer
  \/ UploadCompletes /\ OnlyServer
  \/ ClockTicks /\ OnlyServer

(* ===================================================================== *)
(* The video producers and the files they leave on disk                   *)
(*   "youtubeService"  VideoProducer, src/src/services/youtubeService.ts  *)
(*   "ContentEngine"   YouTubeContentEngine,                              *)
(*                     src/src/services/ContentEngine.ts                  *)
(*   "part_004"        VideoProducer, src/unnamed/part_004                *)
(* ===================================================================== *)

Jobs == 1..MaxJobs

Producers == {"youtubeService", "ContentEngine", "part_004"}

\* the two producers that create a directory of their own for each call
TempDirProducers == {"youtubeService", "ContentEngine"}

\* generateAssets asks for this many background images
BackgroundImageCount == 5

\* segments  the segments whose visual is still to be asked for
\* total     the number of per-segment visual synthesis calls of the run
\* outcomes  outcomes[i]: did the i-th visual synthesis call succeed
\* visuals   the list handed to the assembly step, in order
\* voice     "none", "ok", "failed": the outcome of voice synthesis
\* thumbnail "none", "generated", "fallback" (synthesis failed and a
\*           fallback was returned), "failed" (synthesis threw)
\* script    "none", or the shape of the script createVideo was handed:
\*           "complete", "noScript" (no narration text), "noSegments"
\* old       the job's temporary directory was made more than the
\*           retention window ago
IdleJob == [producer |-> "none", pc |-> "idle", script |-> "none",
            old |-> FALSE, segments |-> 0,
            total |-> 0, outcomes |-> <<>>, visuals |-> <<>>,
            voice |-> "none", thumbnail |-> "none",
            failedAt |-> "none", result |-> "none"]

ProducerInit ==
  /\ jobs = [j \in Jobs |-> IdleJob]
  /\ tempDirs = {}
  /\ videoFiles = {}

FilesOf(j) == {f \in videoFiles : f.job = j}

\* the assembly step (assembleVideoWithFFmpeg, assembleVideo) was called
AssemblyInvoked(job) ==
  \/ job.pc = "assembling"
  \/ job.failedAt = "assembling"
  \/ job.result = "success"

\* a step that writes into the job's temporary directory needs it there
DirThere(j) == jobs[j].producer \in TempDirProducers => j \in tempDirs

\* createVideo(config) is called. youtubeService and ContentEngine create
\* <temp>/<uuid> and await the voiceover; part_004 awaits loadFonts and
\* generateAssets and writes under its shared output directory
CreateVideo(j, producer, n) ==
  /\ jobs[j].pc = "idle"
  /\ jobs' = [jobs EXCEPT ![j] =
                IF producer \in TempDirProducers
                THEN [IdleJob EXCEPT !.producer = producer,
                                     !.script = "complete",
                                     !.pc = "voiceover", !.segments = n,
                                     !.total = n]
                ELSE [IdleJob EXCEPT !.producer = producer,
                                     !.script = "complete",
                                     !.pc = "assets",
                                     !.total = BackgroundImageCount]]
  /\ tempDirs' = IF producer \in TempDirProducers
                 THEN tempDirs \cup {j} ELSE tempDirs
  /\ UNCHANGED videoFiles

\* an error is thrown inside createVideo at `stage`:
\*   youtubeService  catch: await this.cleanupTempDir(tempDir), then
\*                   return { success: false }
\*   ContentEngine   catch: return { success: false }
\*   part_004        catch: throw error
Thrown(job, stage) ==
  CASE job.producer = "youtubeService" ->
         [job EXCEPT !.pc = "cleaning", !.failedAt = stage]
    [] job.producer = "ContentEngine" ->
         [job EXCEPT !.pc = "done", !.failedAt = stage,
                     !.result = "failure"]
    [] job.producer = "part_004" ->
         [job EXCEPT !.pc = "done", !.failedAt = stage,
                     !.result = "thrown"]

\* generateDailyContent of the later draft awaits
\* contentEngine.analyzeAndGenerateContent(trendingTopics)
GenerateScripts(j) ==
  /\ jobs[j].pc = "idle"
  /\ jobs' = [jobs EXCEPT ![j] =
                [IdleJob EXCEPT !.producer = "youtubeService",
                                !.pc = "scripting"]]
  /\ UNCHANGED <<tempDirs, videoFiles>>

\* what JSON.parse made of the first answer of the text generator that
\* parsed, as analyzeAndGenerateContent pushes it to scripts
ScriptShapes == {"complete", "noScript", "noSegments"}

\* analyzeAndGenerateContent returns. With no script generateDailyContent
\* throws; else it calls createVideo(generatedScripts[0]), which creates
\* <temp>/<uuid> and awaits the voiceover
ScriptsReturn(j, shape, n) ==
  /\ jobs[j].pc = "scripting"
  /\ IF shape = "none"
     THEN /\ jobs' = [jobs EXCEPT ![j].pc = "done",
                                  ![j].failedAt = "scripting",
                                  ![j].result = "failure"]
          /\ UNCHANGED tempDirs
     ELSE /\ jobs' = [jobs EXCEPT ![j].script = shape,
                                  ![j].pc = "voiceover",
                                  ![j].segments =
                                     IF shape = "noSegments" THEN 0 ELSE n,
                                  ![j].total =
                                     IF shape = "noSegments" THEN 0 ELSE n]
          /\ tempDirs' = tempDirs \cup {j}
  /\ UNCHANGED videoFiles

\* a voiceover helper that goes on to the visuals whatever it got
VoiceoverIgnored(j, ok) ==
  /\ jobs[j].pc = "voiceover"
  /\ jobs' = [jobs EXCEPT ![j].pc = "visuals",
                          ![j].voice = IF ok THEN "ok" ELSE "failed"]
  /\ UNCHANGED <<tempDirs, videoFiles>>

\* the voiceover helper returns a path or null;
\* if (!audioPath) throw new Error(...)
\* (no speech is made of a script without narration text; the loop over
\* the segments of a script without segments throws at once)
VoiceoverReturns(j, ok) ==
  /\ jobs[j].pc = "voiceover"
  /\ jobs[j].script = "noScript" => ~ok
  /\ ok => DirThere(j)
  /\ jobs' = [jobs EXCEPT ![j] =
                IF ~ok THEN Thrown([@ EXCEPT !.voice = "failed"], "voiceover")
                ELSE IF @.script = "noSegments"
                THEN Thrown([@ EXCEPT !.voice = "ok"], "visuals")
                ELSE [@ EXCEPT !.pc = "visuals", !.voice = "ok"]]
  /\ UNCHANGED <<tempDirs, videoFiles>>

\* a visuals loop that goes on to the thumbnail once it has one visual,
\* with the requests of the later segments still out
VisualReturnsEarly(j, ok) ==
  LET job  == jobs[j]
      left == job.segments - 1
      at   == job.total - left
      got  == IF ok
              THEN Append(job.visuals,
                          [segment |-> at, kind |-> "generated"])
              ELSE job.visuals
      next == [job EXCEPT !.segments = left, !.visuals = got,
                          !.outcomes = Append(@, ok)]
  IN
  /\ job.pc = "visuals"
  /\ ok => DirThere(j)
  /\ jobs' = [jobs EXCEPT ![j] =
                IF Len(got) > 0 THEN [next EXCEPT !.pc = "thumbnail"]
                ELSE IF left > 0 THEN next
                ELSE Thrown(next, "visuals")]
  /\ UNCHANGED <<tempDirs, videoFiles>>

\* the visual of the next segment returns a path or null. A path is pushed
\* to visualPaths, a null is logged and the segment skipped; after the last
\* segment: if (visualPaths.length === 0) throw
VisualReturns(j, ok) ==
  LET job  == jobs[j]
      left == job.segments - 1
      at   == job.total - left
      got  == IF ok
              THEN Append(job.visuals,
                          [segment |-> at, kind |-> "generated"])
              ELSE job.visuals
      next == [job EXCEPT !.segments = left, !.visuals = got,
                          !.outcomes = Append(@, ok)]
  IN
  /\ job.pc = "visuals"
  /\ ok => DirThere(j)
  /\ jobs' = [jobs EXCEPT ![j] =
                IF left > 0 THEN next
                ELSE IF Len(got) = 0 THEN Thrown(next, "visuals")
                ELSE [next EXCEPT !.pc = "thumbnail"]]
  /\ UNCHANGED <<tempDirs, videoFiles>>

\* generateThumbnail returns the rendered thumbnail, or in its catch the
\* path of default_thumbnail.png
ThumbnailReturns(j, ok) ==
  /\ jobs[j].pc = "thumbnail"
  /\ jobs' = [jobs EXCEPT ![j].pc = "assembling",
                          ![j].thumbnail = IF ok THEN "generated"
                                           ELSE "fallback"]
  /\ UNCHANGED <<tempDirs, videoFiles>>

\* part_004 generateBackgroundImages: the i-th image is the generated one,
\* or in the inner catch the one createFallbackImage drew
BackgroundImages(imageOk) ==
  [i \in 1..BackgroundImageCount |->
     [segment |-> i,
      kind |-> IF imageOk[i] THEN "generated" ELSE "fallback"]]

\* part_004: loadFonts and generateAssets settle. generateAssets awaits
\* Promise.all of generateVoiceover (rethrows), generateThumbnail (no
\* catch) and generateBackgroundImages (never rejects)
AssetsReturn(j, voiceOk, thumbnailOk, imageOk) ==
  LET got == [jobs[j] EXCEPT
                !.voice = IF voiceOk THEN "ok" ELSE "failed",
                !.thumbnail = IF thumbnailOk THEN "generated" ELSE "failed",
                !.outcomes = imageOk,
                !.visuals = BackgroundImages(imageOk)]
  IN
  /\ jobs[j].pc = "assets"
  /\ jobs' = [jobs EXCEPT ![j] =
                IF voiceOk /\ thumbnailOk
                THEN [got EXCEPT !.pc = "assembling"]
                ELSE Thrown(got, "assets")]
  /\ UNCHANGED <<tempDirs, videoFiles>>

\* the encoder ends or errors. It writes the output file as it goes: on
\* error a partial file may be on disk already, and the 'error' handler
\* only rejects. youtubeService and ContentEngine write into the job's
\* temporary directory, part_004 into output/videos.
AssemblyReturns(j, ok, partial) ==
  /\ jobs[j].pc = "assembling"
  /\ (ok \/ partial) => DirThere(j)
  /\ IF ok
     THEN /\ videoFiles' = (videoFiles \ FilesOf(j))
                             \cup {[job |-> j, complete |-> TRUE]}
          /\ jobs' = [jobs EXCEPT ![j].pc = "done",
                                  ![j].result = "success"]
     ELSE /\ videoFiles' = IF partial
                           THEN videoFiles
                                  \cup {[job |-> j, complete |-> FALSE]}
                           ELSE videoFiles
          /\ jobs' = [jobs EXCEPT ![j] = Thrown(@, "assembling")]
  /\ UNCHANGED tempDirs

\* cleanupTempDir(tempDir) settles: fs.remove removed the directory and
\* all it holds, or failed and the error was only logged
CleanupTempDir(j, ok) ==
  /\ jobs[j].pc = "cleaning"
  /\ jobs' = [jobs EXCEPT ![j].pc = "done", ![j].result = "failure"]
  /\ IF ok
     THEN /\ tempDirs' = tempDirs \ {j}
          /\ videoFiles' = videoFiles \ FilesOf(j)
     ELSE UNCHANGED <<tempDirs, videoFiles>>

\* the retention window passes over the temporary directory that a
\* createVideo call that has returned left behind
RetentionPasses(j) ==
  /\ jobs[j].pc = "done"
  /\ j \in tempDirs
  /\ ~jobs[j].old
  /\ jobs' = [jobs EXCEPT ![j].old = TRUE]
  /\ UNCHANGED <<tempDirs, videoFiles>>

\* the directories under temp_producer, the base directory of the
\* VideoProducer of youtubeService.ts
UnderTempProducer == {j \in tempDirs : jobs[j].producer = "youtubeService"}

\* VideoProducer.cleanup(), which performCleanup awaits every day at 2 AM:
\* cleanupTempDir(<cwd>/temp_producer) removes the base directory and all
\* under it, or fails and the error is only logged
Cleanup(ok) ==
  /\ IF ok
     THEN /\ tempDirs' = tempDirs \ UnderTempProducer
          /\ videoFiles' = {f \in videoFiles : f.job \notin UnderTempProducer}
     ELSE UNCHANGED <<tempDirs, videoFiles>>
  /\ UNCHANGED jobs

\* the other components take no part in a producer step
OnlyProducer ==
  UNCHANGED <<schedVars, quotaVars, serverVars, scriptVars, assemblyVars>>

ProducerNext ==
  \/ \E j \in Jobs, producer \in Producers, n \in 1..MaxSegments :
       CreateVideo(j, producer, n) /\ OnlyProducer
  \/ \E j \in Jobs : GenerateScripts(j) /\ OnlyProducer
  \/ \E j \in Jobs, shape \in ScriptShapes \cup {"none"},
        n \in 1..MaxSegments :
       ScriptsReturn(j, shape, n) /\ OnlyProducer
  \/ \E j \in Jobs, ok \in BOOLEAN : VoiceoverReturns(j, ok) /\ OnlyProducer
  \/ \E j \in Jobs, ok \in BOOLEAN : VisualReturns(j, ok) /\ OnlyProducer
  \/ \E j \in Jobs, ok \in BOOLEAN : ThumbnailReturns(j, ok) /\ OnlyProducer
  \/ \E j \in Jobs, voiceOk \in BOOLEAN, thumbnailOk \in BOOLEAN,
        imageOk \in [1..BackgroundImageCount -> BOOLEAN] :
       AssetsReturn(j, voiceOk, thumbnailOk, imageOk) /\ OnlyProducer
  \/ \E j \in Jobs, ok \in BOOLEAN, partial \in BOOLEAN :
       AssemblyReturns(j, ok, partial) /\ OnlyProducer
  \/ \E j \in Jobs, ok \in BOOLEAN : CleanupTempDir(j, ok) /\ OnlyProducer
  \/ \E j \in Jobs : RetentionPasses(j) /\ OnlyProducer
  \/ \E ok \in BOOLEAN : Cleanup(ok) /\ OnlyProducer

(* ===================================================================== *)
(* The VideoProducer of src/unnamed/part_006: parseScript and the         *)
(* createVideo pipeline that calls it. A text is a sequence of characters.*)
(* Durations and start times are in milliseconds.                         *)
(* ===================================================================== *)

\* const wordsPerMinute = 150
WordsPerMinute == 150

\* Math.max(3, ...) in the exported class, Math.max(2, ...) in the draft
\* above it
MinDuration == 3

DraftMinDuration == 2

Versions == {"draft", "exported"}

MinDurationOf(version) ==
  IF version = "draft" THEN DraftMinDuration ELSE MinDuration

\* the characters of the class [.!?]
IsTerminator(c) == c \in {".", "!", "?"}

\* white space as String.prototype.trim sees it
IsSpace(c) == c \in {" ", "\n", "\t"}

\* script.split(/[.!?]+/): the stretches between runs of terminators, the
\* empty stretch before a leading and after a trailing run included
RECURSIVE SplitSentences(_, _, _, _)
SplitSentences(s, i, cur, inRun) ==
  IF i > Len(s) THEN <<cur>>
  ELSE IF IsTerminator(s[i])
       THEN IF inRun THEN SplitSentences(s, i + 1, cur, TRUE)
            ELSE <<cur>> \o SplitSentences(s, i + 1, <<>>, TRUE)
       ELSE SplitSentences(s, i + 1, Append(cur, s[i]), FALSE)

RECURSIVE TrimStart(_)
TrimStart(s) ==
  IF Len(s) > 0 /\ IsSpace(Head(s)) THEN TrimStart(Tail(s)) ELSE s

RECURSIVE TrimEnd(_)
TrimEnd(s) ==
  IF Len(s) > 0 /\ IsSpace(s[Len(s)])
  THEN TrimEnd(SubSeq(s, 1, Len(s) - 1)) ELSE s

\* s.trim()
Trim(s) == TrimEnd(TrimStart(s))

\* text.split(' '): the stretches between single space characters, empty
\* stretches included
RECURSIVE SplitSpaces(_, _, _)
SplitSpaces(s, i, cur) ==
  IF i > Len(s) THEN <<cur>>
  ELSE IF s[i] = " "
       THEN <<cur>> \o SplitSpaces(s, i + 1, <<>>)
       ELSE SplitSpaces(s, i + 1, Append(cur, s[i]))

\* .filter(s => s.trim().length > 0)
NonBlank(s) == Len(Trim(s)) > 0

\* Math.max(floor, (words / wordsPerMinute) * 60), in milliseconds
\* (60000 / 150 is a whole number, so the division is exact)
Duration(words, floor) ==
  LET estimate == (words * 60 * 1000) \div WordsPerMinute
  IN IF estimate > floor * 1000 THEN estimate ELSE floor * 1000

\* the forEach over the sentences, from currentTime on
RECURSIVE Timeline(_, _, _)
Timeline(sentences, currentTime, floor) ==
  IF Len(sentences) = 0 THEN <<>>
  ELSE LET text == Trim(Head(sentences))
           words == Len(SplitSpaces(text, 1, <<>>))
           duration == Duration(words, floor)
       IN IF Len(text) = 0
          THEN Timeline(Tail(sentences), currentTime, floor)
          ELSE <<[text |-> text, duration |-> duration,
                  startTime |-> currentTime]>>
                 \o Timeline(Tail(sentences), currentTime + duration, floor)

\* where the timeline of the call before ended
EndOf(segments) ==
  IF Len(segments) = 0 THEN 0
  ELSE segments[Len(segments)].startTime + segments[Len(segments)].duration

\* a parseScript whose currentTime outlives the call
parseScriptCarrying(text, floor) ==
  Timeline(SelectSeq(SplitSentences(text, 1, <<>>, FALSE), NonBlank),
           EndOf(scriptSegments), floor)

\* a parseScript that keeps the blank sentences
parseScriptUnfiltered(text, floor) ==
  LET sentences == SplitSentences(text, 1, <<>>, FALSE)
  IN [k \in 1..Len(sentences) |->
        [text |-> Trim(sentences[k]),
         duration |-> floor * 1000,
         startTime |-> (k - 1) * floor * 1000]]

parseScript(text, floor) ==
  Timeline(SelectSeq(SplitSentences(text, 1, <<>>, FALSE), NonBlank),
           0, floor)

\* the narration texts the model passes: up to MaxPieces pieces, each a
\* letter, a space, a line break, a full stop or a phrase of four words
Phrase == <<"a", " ", "a", " ", "a", " ", "a", " ">>

Pieces == {<<"a">>, <<" ">>, <<"\n">>, <<".">>, Phrase}

RECURSIVE Flatten(_)
Flatten(pieces) ==
  IF Len(pieces) = 0 THEN <<>> ELSE Head(pieces) \o Flatten(Tail(pieces))

Texts ==
  {Flatten(pieces) :
     pieces \in UNION {[1..n -> Pieces] : n \in 0..MaxPieces}}

ShortTexts == {Flatten(pieces) : pieces \in [1..1 -> Pieces]} \cup {<<>>}

IdleProduction ==
  [version |-> "none", pc |-> "idle", repeated |-> FALSE,
   thumbnail |-> "none", failedAt |-> "none"]

ScriptInit ==
  /\ script = <<>>
  /\ scriptSegments = <<>>
  /\ production = IdleProduction

\* the texts of a call: any text in the first call; a later call repeats
\* the script of the call before it or passes a short one
CallTexts ==
  IF production.pc = "idle" THEN Texts ELSE {script} \cup ShortTexts

\* createVideo(config) of part_006 is called with config.script = text:
\* ensureDir(jobDir), parseScript, then await generateAssets.
\* production.repeated: the call passes the script of the call before it
ProduceVideo(version, text) ==
  /\ production.pc \in {"idle", "done"}
  /\ text \in CallTexts
  /\ script' = text
  /\ scriptSegments' = parseScript(text, MinDurationOf(version))
  /\ production' = [IdleProduction EXCEPT
                      !.version = version, !.pc = "assets",
                      !.repeated = (production.pc = "done" /\ text = script)]

\* catch of createVideo: throw error
ProductionThrown(stage) ==
  [production EXCEPT !.pc = "done", !.failedAt = stage]

\* one of the awaited steps generateAssets, generateAudio, createScenes,
\* combineScenes settles
ProductionStep(pc, next, ok) ==
  /\ production.pc = pc
  /\ production' = IF ok THEN [production EXCEPT !.pc = next]
                   ELSE ProductionThrown(pc)
  /\ UNCHANGED <<script, scriptSegments>>

\* generateThumbnail settles: the generated thumbnail, the one of
\* createFallbackThumbnail, or the error createFallbackThumbnail threw
GenerateThumbnailReturns(outcome) ==
  /\ production.pc = "thumbnail"
  /\ production' =
       IF outcome = "failed"
       THEN [ProductionThrown("thumbnail") EXCEPT !.thumbnail = outcome]
       ELSE [production EXCEPT !.pc = "done", !.thumbnail = outcome]
  /\ UNCHANGED <<script, scriptSegments>>

\* the other components take no part in a step of this producer
OnlyScript ==
  UNCHANGED <<schedVars, quotaVars, serverVars, producerVars, assemblyVars>>

ScriptNext ==
  \/ \E version \in Versions, text \in CallTexts :
       ProduceVideo(version, text) /\ OnlyScript
  \/ \E ok \in BOOLEAN : ProductionStep("assets", "audio", ok) /\ OnlyScript
  \/ \E ok \in BOOLEAN : ProductionStep("audio", "scenes", ok) /\ OnlyScript
  \/ \E ok \in BOOLEAN :
       ProductionStep("scenes", "combining", ok) /\ OnlyScript
  \/ \E ok \in BOOLEAN :
       ProductionStep("combining", "thumbnail", ok) /\ OnlyScript
  \/ \E outcome \in {"generated", "fallback", "failed"} :
       GenerateThumbnailReturns(outcome) /\ OnlyScript

(* ===================================================================== *)
(* Assembly: scenes and mux (src/unnamed/part_006,                        *)
(* src/src/services/youtubeService.ts, src/unnamed/part_004)              *)
(* ===================================================================== *)

\* durations are in milliseconds. A still image given to the encoder as a
\* plain input (no -loop, no -t) is one frame at 25 frames a second
StillDuration == 40

Assemblers == {"part_006", "youtubeService", "part_004"}

Min(a, b) == IF a <= b THEN a ELSE b
Max(a, b) == IF a >= b THEN a ELSE b

\* the timed segments of a script
SegmentLists ==
  UNION {[1..n -> {[duration |-> 1000 * s] : s \in 1..MaxSeconds}] :
           n \in 1..MaxScenes}

\* the durations of the voiceover track
AudioDurations == {StillDuration} \cup {1000 * s : s \in 1..MaxSeconds}

RECURSIVE Ascending(_)
Ascending(S) ==
  IF S = {} THEN <<>>
  ELSE LET m == CHOOSE x \in S : \A y \in S : x >= y
       IN Append(Ascending(S \ {m}), m)

\* the visuals a producer has when it assembles:
\* part_006      assets.backgroundImages, the images the search returned
\* youtubeService visualPaths, the visuals of the segments that got
\*               one, in the order of the segments, at least one
\* part_004      the background images generateBackgroundImages returned
VisualLists(producer, segments) ==
  IF producer = "part_006"
  THEN {[i \in 1..n |-> i] : n \in 0..MaxImages}
  ELSE IF producer = "youtubeService"
  THEN {Ascending(S) : S \in SUBSET (1..Len(segments)) \ {{}}}
  ELSE {[k \in 1..Len(backgrounds.images) |-> backgrounds.images[k].index]}

\* every visual given to the encoder as a plain input and concatenated
Stills(visuals) ==
  [k \in 1..Len(visuals) |->
     [image |-> visuals[k], duration |-> StillDuration]]

\* createScenes of part_006: scene i shows
\* backgroundImages[i % backgroundImages.length] for segment.duration
createScenes(segments, visuals) ==
  [i \in 1..Len(segments) |->
     [image |-> visuals[((i - 1) % Len(visuals)) + 1],
      duration |-> segments[i].duration]]

RECURSIVE TotalDuration(_, _)
TotalDuration(scenes, n) ==
  IF n = 0 THEN 0 ELSE scenes[n].duration + TotalDuration(scenes, n - 1)

\* the duration of the file the encoder writes: with -shortest it ends
\* with the shorter stream, without it with the longer one
\* (part_004 passes no -shortest)
AssembledDuration(producer, scenes, audio) ==
  LET visual == TotalDuration(scenes, Len(scenes))
  IN IF producer = "part_004" THEN Max(visual, audio)
     ELSE Min(visual, audio)

NoCommand == [inputs |-> <<>>, mapAudio |-> {}]

\* the command with the audio stream taken from the last visual input
assembleVideoMapsLastVisual(visuals) ==
  [inputs |-> [k \in 1..Len(visuals) |->
                 [kind |-> "visual", path |-> visuals[k]]]
              \o <<[kind |-> "audio", path |-> 0]>>,
   mapAudio |-> {Len(visuals) - 1}]

\* the encoder command of assembleVideoWithFFmpeg and assembleVideo:
\* visualPaths.forEach(command.input), then command.input(audioPath), and
\* -map <visualPaths.length>:a; input indices count from 0
assembleVideoWithFFmpeg(visuals) ==
  [inputs |-> [k \in 1..Len(visuals) |->
                 [kind |-> "visual", path |-> visuals[k]]]
              \o <<[kind |-> "audio", path |-> 0]>>,
   mapAudio |-> {Len(visuals)}]

\* the encoder command of combineScenes: the concat file, then the audio,
\* and no -map option
combineScenes(scenes) ==
  [inputs |-> <<[kind |-> "concat", path |-> scenes],
                [kind |-> "audio", path |-> 0]>>,
   mapAudio |-> {}]

IdleAssembly ==
  [producer |-> "none", pc |-> "idle", segments |-> <<>>,
   visuals |-> <<>>, audio |-> 0, scenes |-> <<>>,
   command |-> NoCommand, output |-> 0]

\* what happens to the i-th image of generateBackgroundImages: it is
\* generated and saved; images.generate or the download throws and the
\* fallback is drawn; the response carries no url; the fallback throws too
ImageOutcomes == {"generated", "threw", "noUrl", "fallbackThrew"}

\* the for loop of generateBackgroundImages from image i on, with its
\* inner try/catch: thrown when createFallbackImage threw out of the catch
RECURSIVE ImageLoop(_, _, _)
ImageLoop(outcomes, i, images) ==
  IF i > Len(outcomes) THEN [thrown |-> FALSE, images |-> images]
  ELSE IF outcomes[i] = "generated"
  THEN ImageLoop(outcomes, i + 1,
                 Append(images, [index |-> i, kind |-> "generated"]))
  ELSE IF outcomes[i] = "noUrl"
  THEN ImageLoop(outcomes, i + 1, images)
  ELSE IF outcomes[i] = "threw"
  THEN ImageLoop(outcomes, i + 1,
                 Append(images, [index |-> i, kind |-> "fallback"]))
  ELSE [thrown |-> TRUE, images |-> images]

\* generateBackgroundImages(niche, count): the loop, and the outer catch
\* that pushes count fallback images after what the loop had pushed, or
\* rejects when createFallbackImage throws there as well
generateBackgroundImages(outcomes, rescueOk) ==
  LET loop == ImageLoop(outcomes, 1, <<>>) IN
  IF ~loop.thrown THEN [rejected |-> FALSE, images |-> loop.images]
  ELSE IF rescueOk
  THEN [rejected |-> FALSE,
        images |-> loop.images \o
                   [k \in 1..Len(outcomes) |->
                      [index |-> k, kind |-> "fallback"]]]
  ELSE [rejected |-> TRUE, images |-> loop.images]

IdleBackgrounds ==
  [pc |-> "idle", count |-> 0, outcomes |-> <<>>, images |-> <<>>]

AssemblyInit ==
  /\ assembly = IdleAssembly
  /\ backgrounds = IdleBackgrounds

\* generateAssets of part_004 calls generateBackgroundImages(niche, count)
\* before the assembly, and the call settles
GenerateBackgroundImages(count, outcomes, rescueOk) ==
  LET got == generateBackgroundImages(outcomes, rescueOk) IN
  /\ backgrounds.pc = "idle"
  /\ assembly.pc = "idle"
  /\ Len(outcomes) = count
  /\ backgrounds' = [pc |-> IF got.rejected THEN "rejected" ELSE "returned",
                     count |-> count, outcomes |-> outcomes,
                     images |-> got.images]
  /\ UNCHANGED assembly

\* createVideo has its visuals and its audio track. part_006 awaits
\* createScenes; youtubeService and part_004 give every visual to the
\* encoder and await it
StartAssembly(producer, segments, visuals, audio) ==
  /\ assembly.pc = "idle"
  /\ backgrounds.pc = IF producer = "part_004" THEN "returned" ELSE "idle"
  /\ visuals \in VisualLists(producer, segments)
  /\ assembly' =
       [IdleAssembly EXCEPT
          !.producer = producer, !.segments = segments,
          !.visuals = visuals, !.audio = audio,
          !.pc = IF producer = "part_006" THEN "scenes" ELSE "combining",
          !.scenes = IF producer = "part_006" THEN <<>>
                     ELSE Stills(visuals),
          !.command = IF producer = "part_006" THEN NoCommand
                      ELSE assembleVideoWithFFmpeg(visuals)]
  /\ backgrounds' = IdleBackgrounds

\* createScenes settles. With no background image backgroundImage is
\* undefined and the encoder of the first scene fails
CreateScenesReturns(ok) ==
  /\ assembly.pc = "scenes"
  /\ assembly.visuals = <<>> => ~ok
  /\ assembly' =
       IF ok
       THEN [assembly EXCEPT
               !.pc = "combining",
               !.scenes = createScenes(assembly.segments, assembly.visuals),
               !.command = combineScenes(createScenes(assembly.segments,
                                                      assembly.visuals))]
       ELSE [assembly EXCEPT !.pc = "failed"]
  /\ UNCHANGED backgrounds

\* combineScenes, assembleVideoWithFFmpeg, assembleVideo: the encoder ends
\* or errors; it errors on a concat of no input
CombineReturns(ok) ==
  /\ assembly.pc = "combining"
  /\ assembly.scenes = <<>> => ~ok
  /\ assembly' =
       IF ok
       THEN [assembly EXCEPT
               !.pc = "done",
               !.output = AssembledDuration(assembly.producer,
                                            assembly.scenes, assembly.audio)]
       ELSE [assembly EXCEPT !.pc = "failed"]
  /\ UNCHANGED backgrounds

\* the other components take no part in a step of the assembly
OnlyAssembly ==
  UNCHANGED <<schedVars, quotaVars, serverVars, producerVars, scriptVars>>

AssemblyNext ==
  \/ \E producer \in Assemblers, segments \in SegmentLists,
        audio \in AudioDurations :
       \E visuals \in VisualLists(producer, segments) :
         StartAssembly(producer, segments, visuals, audio) /\ OnlyAssembly
  \/ \E ok \in BOOLEAN : CreateScenesReturns(ok) /\ OnlyAssembly
  \/ \E ok \in BOOLEAN : CombineReturns(ok) /\ OnlyAssembly
  \/ \E count \in 1..MaxImages, rescueOk \in BOOLEAN :
       \E outcomes \in [1..count -> ImageOutcomes] :
         GenerateBackgroundImages(count, outcomes, rescueOk) /\ OnlyAssembly

(* ===================================================================== *)
(* Specifications                                                         *)
(* ===================================================================== *)

Init ==
  /\ SchedInit /\ QuotaInit /\ ServerInit /\ ProducerInit /\ ScriptInit
  /\ AssemblyInit

Spec == Init /\ [][SchedNext]_vars

RestartSpec == Init /\ [][RestartNext]_vars

QuotaSpec == Init /\ [][QuotaNext]_vars

OverlapSpec == Init /\ [][OverlapNext]_vars

ServerSpec == Init /\ [][ServerNext]_vars

ProducerSpec == Init /\ [][ProducerNext]_vars

ScriptSpec == Init /\ [][ScriptNext]_vars

AssemblySpec == Init /\ [][AssemblyNext]_vars

\* The scheduler with the collaborators that answer: the trend search, the
\* text generator and the run-log store always settle in the end. The video
\* producer is left out: its encoder process settles only on the 'end' or
\* 'error' event and no call of a run is given a timeout.
LiveSpec ==
  /\ Spec
  /\ \A r \in RunSlots :
       WF_vars(\E ok \in BOOLEAN :
                 (HuntReturns(r, ok) \/ ScriptReturns(r, ok)
                    \/ LogReturns(r, ok)) /\ OnlySched)

(* ===================================================================== *)
(* Claims about the AutomationScheduler                                   *)
(* ===================================================================== *)

FireEvents == {"fireSkipped", "fireStarted"}
TriggerEvents == {"triggerSkipped", "triggerStarted"}

\* C1: at most one generateDailyContent run body is in flight at any time,
\* whatever the sequence of initialize, start, stop, fires and triggers.
C1_AtMostOneRun == InFlight <= 1

\* C2: once the scheduler is started, a scheduled fire that arrives while
\* no run is in flight starts a run (a run enters the trend hunt) instead
\* of being skipped.
C2_FireStartsRun ==
  [][(startedTasks > 0 /\ InFlight = 0 /\ event' \in FireEvents)
       => (event' = "fireStarted" /\ InFlight' = 1)]_vars

\* a result that tells the caller the trigger did not run: it differs
\* from what a trigger that ran returns
ReportsAlreadyRunning(res) == res # NoResult /\ res # [success |-> TRUE]

\* C3: a trigger or fire that arrives while a run is in flight is a no-op
\* (no run started, run and scheduler state untouched, nothing queued) and
\* a manual trigger's result reports "already running".
C3_BusyTriggerIsNoOp ==
  [][(InFlight > 0 /\ event' \in FireEvents \cup TriggerEvents)
       => /\ runs' = runs
          /\ status' = status
          /\ event' \in TriggerEvents
               => ReportsAlreadyRunning(triggerResult')]_vars

\* C5: a failing run records its error in status.errors and returns the
\* pipeline to Idle, and the trigger or fire that arrives next starts a
\* fresh run.
C5_FailureNotSticky ==
  [][/\ event' = "runFailed"
          => /\ ~status'.isRunning
             /\ status'.errors = Append(status.errors, errorsRecorded')
             /\ InFlight' = InFlight - 1
     /\ (event = "runFailed" /\ event' \in FireEvents \cup TriggerEvents)
          => /\ event' \in {"fireStarted", "triggerStarted"}
             /\ InFlight' = InFlight + 1
             /\ status'.isRunning]_vars

\* C5 witness: a run has just failed, its error is recorded and the
\* scheduler is idle again
C5_Witness ==
  /\ event = "runFailed"
  /\ InFlight = 0
  /\ ~status.isRunning
  /\ Len(status.errors) = 1

\* C10: status.errors never holds more than 10 entries, and they are the
\* most recently recorded errors in recording order.
C10_ErrorsBounded ==
  /\ Len(status.errors) <= ErrorKeep
  /\ \A i \in 1..Len(status.errors) :
       status.errors[i] = errorsRecorded - Len(status.errors) + i

\* start() was the last of start()/stop() to be called: only they assign
\* status.nextRun, a date and null
StartedLast == status.nextRun = "date"

\* C11: start() on an already-started scheduler and stop() on an
\* already-stopped one are no-ops: the running flag, the next-run time and
\* the registered (and started) cron tasks stay exactly as they were.
C11_StartStopIdempotent ==
  [][/\ (event' = "start" /\ StartedLast /\ startedTasks = tasks)
          => (status' = status /\ tasks' = tasks
                /\ startedTasks' = startedTasks)
     /\ (event' = "stop" /\ ~StartedLast /\ startedTasks = 0)
          => (status' = status /\ tasks' = tasks
                /\ startedTasks' = startedTasks)]_vars

\* the answers of the control routes, by status class
SuccessAnswers == {"schedulerStart200", "schedulerStop200"}
StartAnswers == {"schedulerStart200", "schedulerStart409"}
StopAnswers == {"schedulerStop200", "schedulerStop409"}

\* C12: POST /scheduler/start on an already-running scheduler and POST
\* /scheduler/stop on an already-stopped one answer with a success-like
\* (2xx) status, not with an error status.
C12_IdempotentRoutesAnswerSuccess ==
  [][/\ (event' \in StartAnswers /\ status.isRunning)
          => event' \in SuccessAnswers
     /\ (event' \in StopAnswers /\ ~status.isRunning)
          => event' \in SuccessAnswers]_vars

(* ===================================================================== *)
(* Claims about the quota scheduler                                       *)
(* ===================================================================== *)

\* a step in which the cron job fired
Fired == firesToday' = firesToday + 1

\* the fire was skipped: no cycle left Idle, no collaborator was called,
\* no counter changed
FireSkipped ==
  /\ cycles' = cycles
  /\ quotaStatus' = quotaStatus
  /\ videosCreatedToday' = videosCreatedToday

\* C8 (as stated): with the quota Q unchanged, the (Q+1)-th scheduled fire
\* of a calendar day is skipped, whatever the earlier fires' cycles did.
C8_FireAfterQuotaFiresSkipped ==
  [][(Fired /\ firesToday = config.maxVideosPerDay) => FireSkipped]_vars

\* C8 (amended): a scheduled fire is skipped exactly when
\* videosCreatedToday has reached maxVideosPerDay, and videosCreatedToday
\* grows only when a cycle completes successfully: fires whose cycles
\* failed or found no trending video do not use up the quota.
C8_FireSkippedWhenQuotaReached ==
  [][/\ (Fired /\ videosCreatedToday >= config.maxVideosPerDay)
          => FireSkipped
     /\ (Fired /\ videosCreatedToday < config.maxVideosPerDay)
          => /\ CyclesInFlight' = CyclesInFlight + 1
             /\ videosCreatedToday' = videosCreatedToday
     /\ videosCreatedToday' > videosCreatedToday
          => /\ videosCreatedToday' = videosCreatedToday + 1
             /\ quotaStatus'.successfulRuns = quotaStatus.successfulRuns + 1
             /\ quotaStatus'.failedRuns = quotaStatus.failedRuns]_vars

\* a fire arrived with the quota used up by a successful cycle and was
\* skipped
C8_Witness ==
  /\ lastFire = "skipped"
  /\ videosCreatedToday = config.maxVideosPerDay
  /\ quotaStatus.successfulRuns > 0
  /\ CyclesInFlight = 0

\* C9: the per-day counter is reset when the calendar day changes: the
\* first scheduled fire of a day proceeds whenever fewer than
\* maxVideosPerDay videos have been created since midnight, even if the
\* previous day's quota was exhausted.
C9_FirstFireOfNewDayProceeds ==
  [][(Fired /\ firesToday = 0
        /\ createdSinceMidnight < config.maxVideosPerDay)
       => CyclesInFlight' = CyclesInFlight + 1]_vars

(* ===================================================================== *)
(* Claims about the server automation loop                                *)
(* ===================================================================== *)

\* C4: the scheduled upload, the error-recovery retry, the webhook
\* 'upload' action and /api/upload-now never have two automatedVideoUpload
\* executions in flight at the same time.
C4_AtMostOneUpload == UploadsInFlight <= 1

(* ===================================================================== *)
(* Claims about the video producers                                       *)
(* ===================================================================== *)

\* C6: when a createVideo call of youtubeService's VideoProducer or of the
\* ContentEngine has ended, on whatever exit path, the temporary directory
\* created for it has been removed.
C6_TempDirRemoved ==
  \A j \in Jobs :
    (jobs[j].pc = "done" /\ jobs[j].producer \in TempDirProducers)
      => j \notin tempDirs

\* C7: when the assembly step of a createVideo call of a VideoProducer
\* (youtubeService, part_004) has failed and the call has ended, the call
\* reported failure and no output media file of it, partial or complete,
\* is on disk.
C7_NoOutputAfterAssemblyFailure ==
  \A j \in Jobs :
    (/\ jobs[j].pc = "done"
     /\ jobs[j].failedAt = "assembling"
     /\ jobs[j].producer \in {"youtubeService", "part_004"})
      => /\ jobs[j].result \in {"failure", "thrown"}
         /\ FilesOf(j) = {}

\* the createVideo call of job has ended and told its caller of a failure:
\* { success: false } or a rejected promise
ReportsFailure(job) ==
  job.pc = "done" /\ job.result \in {"failure", "thrown"}

\* C13: when voice synthesis of a createVideo call has failed, the assembly
\* step is not invoked for that call, and once the call has ended it has
\* reported failure.
C13_VoiceFailureIsFatal ==
  \A j \in Jobs :
    jobs[j].voice = "failed"
      => /\ ~AssemblyInvoked(jobs[j])
         /\ jobs[j].pc = "done" => ReportsFailure(jobs[j])

\* a createVideo call of youtubeService has ended after its voice synthesis
\* failed
C13_Witness ==
  \E j \in Jobs :
    /\ jobs[j].voice = "failed"
    /\ ReportsFailure(jobs[j])
    /\ jobs[j].producer = "youtubeService"

\* how many of the visual synthesis calls made so far for job have failed
FailedVisuals(job) ==
  Cardinality({i \in 1..Len(job.outcomes) : ~job.outcomes[i]})

\* every visual synthesis call of job has been made
VisualsSettled(job) ==
  job.total > 0 /\ Len(job.outcomes) = job.total

\* C14: when K of the N visual synthesis calls of a createVideo call of
\* youtubeService's VideoProducer or of the ContentEngine have failed, with
\* 0 < K < N, and the assembly step has been invoked, the assembly step
\* received N visuals: at position i the visual of segment i, a fallback
\* where the synthesis of segment i failed.
C14_FailedVisualsReplacedInPlace ==
  \A j \in Jobs :
    (/\ jobs[j].producer \in TempDirProducers
     /\ VisualsSettled(jobs[j])
     /\ FailedVisuals(jobs[j]) > 0
     /\ FailedVisuals(jobs[j]) < jobs[j].total
     /\ AssemblyInvoked(jobs[j]))
      => /\ Len(jobs[j].visuals) = jobs[j].total
         /\ \A i \in 1..jobs[j].total :
              jobs[j].visuals[i] =
                [segment |-> i,
                 kind |-> IF jobs[j].outcomes[i] THEN "generated"
                          ELSE "fallback"]

\* C15: when all N visual synthesis calls of a createVideo call have
\* failed, the assembly step is not invoked for that call, and once the
\* call has ended it has reported a failure that arose at the visuals.
C15_NoVisualsIsFatal ==
  \A j \in Jobs :
    (/\ VisualsSettled(jobs[j])
     /\ FailedVisuals(jobs[j]) = jobs[j].total
     /\ jobs[j].voice = "ok"
     /\ jobs[j].thumbnail # "failed")
      => /\ ~AssemblyInvoked(jobs[j])
         /\ jobs[j].pc = "done"
              => (ReportsFailure(jobs[j]) /\ jobs[j].failedAt = "visuals")

\* thumbnail synthesis of the createVideo call failed
ThumbnailSynthesisFailed(job) == job.thumbnail \in {"fallback", "failed"}

\* C16: when thumbnail synthesis of a createVideo call has failed (and its
\* voice synthesis has not), a fallback thumbnail has been substituted and
\* the call does not fail at its assets.
C16_ThumbnailFailureNotFatal ==
  \A j \in Jobs :
    (ThumbnailSynthesisFailed(jobs[j]) /\ jobs[j].voice = "ok")
      => /\ jobs[j].thumbnail = "fallback"
         /\ jobs[j].failedAt \notin {"assets", "thumbnail"}

(* ===================================================================== *)
(* Claims about parseScript and the producer that calls it                *)
(* ===================================================================== *)

\* where a stretch free of terminators begins in a text
UnitStarts(s) ==
  {i \in 1..Len(s) :
     ~IsTerminator(s[i]) /\ (i = 1 \/ IsTerminator(s[i - 1]))}

\* where the stretch that begins at i ends
UnitEnd(s, i) ==
  CHOOSE j \in i..Len(s) :
    /\ j = Len(s) \/ IsTerminator(s[j + 1])
    /\ \A k \in i..j : ~IsTerminator(s[k])

\* the sentence-like units of a text: the maximal stretches <<i, j>> free
\* of terminators that hold a character other than white space
UnitSpans(s) ==
  {u \in {<<i, UnitEnd(s, i)>> : i \in UnitStarts(s)} :
     \E k \in u[1]..u[2] : ~IsSpace(s[k])}

\* the k-th of the units in text order
KthUnit(units, k) ==
  CHOOSE u \in units : Cardinality({v \in units : v[1] < u[1]}) = k - 1

\* the unit without the white space around it
UnitText(s, u) ==
  LET inked == {k \in u[1]..u[2] : ~IsSpace(s[k])}
      first == CHOOSE k \in inked : \A m \in inked : k <= m
      last  == CHOOSE k \in inked : \A m \in inked : k >= m
  IN SubSeq(s, first, last)

RECURSIVE SumDurations(_, _)
SumDurations(segments, n) ==
  IF n = 0 THEN 0
  ELSE segments[n].duration + SumDurations(segments, n - 1)

\* a createVideo call of part_006 has been made
Parsed == production.pc # "idle"

\* C17: parseScript returns exactly one segment per non-empty
\* terminator-delimited unit of the narration text, in text order; the first
\* segment starts at 0 and every segment starts at the sum of the durations
\* of the segments before it.
C17_OneSegmentPerUnitContiguous ==
  Parsed =>
    LET units == UnitSpans(script)
    IN /\ Len(scriptSegments) = Cardinality(units)
       /\ \A k \in 1..Len(scriptSegments) :
            /\ scriptSegments[k].text = UnitText(script, KthUnit(units, k))
            /\ scriptSegments[k].startTime
                 = SumDurations(scriptSegments, k - 1)

\* a text of two units, the first of them longer than the floor, was parsed
C17_Witness ==
  /\ Parsed
  /\ Len(scriptSegments) = 2
  /\ scriptSegments[1].duration > MinDuration * 1000
  /\ scriptSegments[2].startTime = scriptSegments[1].duration

\* the words of a text: its maximal stretches free of white space
WordCount(text) ==
  Cardinality({k \in 1..Len(text) :
                 ~IsSpace(text[k]) /\ (k = 1 \/ IsSpace(text[k - 1]))})

\* max(floor, wordCount * 60 / wordsPerMinute), in milliseconds
ClampedEstimate(wordCount, floor) ==
  LET estimate == (wordCount * 60 * 1000) \div WordsPerMinute
  IN IF estimate >= floor * 1000 THEN estimate ELSE floor * 1000

HelloWorld ==
  <<"H", "e", "l", "l", "o", " ", "w", "o", "r", "l", "d", ".", " ",
    "T", "h", "i", "s", " ", "i", "s", " ", "a", " ", "t", "e", "s", "t",
    ".">>

\* C18: every segment parseScript produces has the duration
\* max(floor, wordCount * 60 / wordsPerMinute) for the number of words of
\* its text, which is at least the floor and positive; and
\* "Hello world. This is a test." yields two segments, both at the floor,
\* starting at 0 and at the floor.
C18_DurationIsClampedEstimate ==
  /\ Parsed =>
       \A k \in 1..Len(scriptSegments) :
         /\ scriptSegments[k].duration =
              ClampedEstimate(WordCount(scriptSegments[k].text),
                              MinDurationOf(production.version))
         /\ scriptSegments[k].duration
              >= MinDurationOf(production.version) * 1000
         /\ scriptSegments[k].duration > 0
  /\ \A version \in Versions :
       LET floor == MinDurationOf(version) * 1000
           segments == parseScript(HelloWorld, MinDurationOf(version))
       IN /\ Len(segments) = 2
          /\ segments[1].duration = floor /\ segments[1].startTime = 0
          /\ segments[2].duration = floor /\ segments[2].startTime = floor

\* C19: a createVideo call of part_006 whose narration has no non-empty
\* unit fails at the script, before asset synthesis is begun; a narration
\* of one unit yields one segment that starts at 0.
C19_EmptyScriptFailsEarly ==
  Parsed =>
    /\ Cardinality(UnitSpans(script)) = 0
         => (production.pc = "done" /\ production.failedAt = "script")
    /\ Cardinality(UnitSpans(script)) = 1
         => (Len(scriptSegments) = 1 /\ scriptSegments[1].startTime = 0)

AwaitingPublish == UploadsAt("checking") \cup UploadsAt("inserting")

\* C21: the media file produced for an upload exists as long as the publish
\* call for it has not returned success, and when the publish call throws,
\* the file exists afterwards.
C21_FileKeptUntilPublished ==
  /\ [](\A u \in AwaitingPublish : u.path \in mediaFiles)
  /\ [][\A u \in AwaitingPublish :
          uploads' = uploads (-) SetToBag({u}) => u.path \in mediaFiles']_vars

(* ===================================================================== *)
(* Claims about the outcome of a run of the AutomationScheduler           *)
(* ===================================================================== *)

\* the runs that leave generateDailyContent in this step
Leaving(pc) ==
  {r \in BagToSet(runs) : r.pc = pc /\ CopiesIn(r, runs') < CopiesIn(r, runs)}

\* C22: totalVideosProd goes up by one in the step in which a run's video
\* production returns success and changes in no other step; a run that was
\* counted goes on to write the run log and then leaves with isRunning
\* cleared and no error recorded.
C22_CountedOncePerProducedVideo ==
  [][/\ status'.totalVideosProd =
          status.totalVideosProd + (IF event' = "logging" THEN 1 ELSE 0)
     /\ event' = "logging" =>
          \E r \in BagToSet(runs) :
            r.pc = "producing" /\ [r EXCEPT !.pc = "logging"] \in BagToSet(runs')
     /\ Leaving("logging") # {} =>
          /\ event' \in CompletedEvents
          /\ ~status'.isRunning
          /\ status'.errors = status.errors]_vars

\* a run was counted and has completed, and another run failed
C22_Witness ==
  /\ event = "runCompleted"
  /\ status.totalVideosProd = 1
  /\ Len(status.errors) = 1
  /\ InFlight = 0

\* C23: a run that is logging its produced video ends as a success
\* whether the insert into the run log is made or fails: totalVideosProd
\* keeps the increment, status.errors gets no entry and isRunning is
\* cleared.
C23_LogFailureKeepsSuccess ==
  [][Leaving("logging") # {} =>
       /\ event' \in CompletedEvents
       /\ status'.totalVideosProd = status.totalVideosProd
       /\ status.totalVideosProd > 0
       /\ status'.errors = status.errors
       /\ errorsRecorded' = errorsRecorded
       /\ ~status'.isRunning]_vars

\* the only run so far was counted and ended with a failed run-log insert
C23_Witness ==
  /\ event = "runCompletedUnlogged"
  /\ status.totalVideosProd = 1
  /\ status.errors = <<>>
  /\ InFlight = 0

\* C24: whenever a run is in flight, the scheduler comes back to a state
\* with no run in flight, even when a collaborator call of the run never
\* responds.
C24_RunEventuallyIdle == (InFlight > 0) ~> (InFlight = 0)

\* C25: video production is started only on a script that has all its
\* required fields: a createVideo call is never under way, or ended, with
\* a script that lacks its narration text or its segments.
C25_ProductionOnlyOnValidScript ==
  \A j \in Jobs :
    jobs[j].pc \notin {"idle", "scripting"}
      => jobs[j].script \in {"none", "complete"}

\* the visual stream of an assembly: the scenes the encoder was given
Muxed == assembly.pc \in {"combining", "done"}

VisualStream == TotalDuration(assembly.scenes, Len(assembly.scenes))

\* C26: the duration of the assembled output is the smaller of the duration
\* of the visual stream and the duration of the audio track, whichever of
\* the two is the shorter.
C26_OutputIsShorterStream ==
  assembly.pc = "done"
    => assembly.output = Min(VisualStream, assembly.audio)

\* C27: the visual stream handed to the mux has one scene per segment, in
\* the order of the segments, each as long as the estimated duration of its
\* segment, so it is as long as the segments' durations summed.
C27_VisualStreamFollowsTimeline ==
  (Muxed /\ assembly.producer \in {"part_006", "youtubeService"})
    => /\ Len(assembly.scenes) = Len(assembly.segments)
       /\ \A i \in 1..Len(assembly.scenes) :
            assembly.scenes[i].duration = assembly.segments[i].duration
       /\ VisualStream =
            SumDurations(assembly.segments, Len(assembly.segments))

\* C28: with at least one visual but fewer visuals than segments every
\* segment has a scene, and each segment beyond the visuals is shown with
\* the last visual.
C28_LastVisualRepeated ==
  (/\ Muxed
   /\ assembly.producer = "part_006"
   /\ Len(assembly.visuals) >= 1
   /\ Len(assembly.visuals) < Len(assembly.segments))
    => /\ Len(assembly.scenes) = Len(assembly.segments)
       /\ \A i \in 1..Len(assembly.scenes) :
            i > Len(assembly.visuals)
              => assembly.scenes[i].image =
                   assembly.visuals[Len(assembly.visuals)]

\* C29: the cleanup sweep removes only entries older than the retention
\* window: a temporary directory that a sweep removes was made more than
\* the retention window ago. (A sweep leaves the createVideo calls where
\* they are; the removal at the end of a failed call is not a sweep.)
C29_SweepRemovesOnlyOldEntries ==
  [][jobs' = jobs => \A j \in tempDirs \ tempDirs' : jobs[j].old]_vars

\* the steps in which stop() ran
StopEvents == {"stop", "schedulerStop200"}

SynthesisPending(job) ==
  \/ job.voice = "none"
  \/ job.segments > 0
  \/ Len(job.outcomes) < job.total

\* C31: the assembly step of a createVideo call is entered only when the
\* voice track and the visual of every segment of that call have settled.
C31_AssemblyAfterSynthesis ==
  \A j \in Jobs : AssemblyInvoked(jobs[j]) => ~SynthesisPending(jobs[j])

\* the encoder runs on a two-segment script whose first visual failed
C31_Witness ==
  \E j \in Jobs :
    /\ jobs[j].pc = "assembling"
    /\ jobs[j].producer = "youtubeService"
    /\ jobs[j].outcomes = <<FALSE, TRUE>>
    /\ jobs[j].voice = "ok"


\* C32: the day's counter stays within the quota: no step that leaves the
\* config as it is takes videosCreatedToday from within
\* config.maxVideosPerDay to beyond it, overlapping cycles included.
C32_CounterWithinQuota ==
  [][(/\ config' = config
      /\ videosCreatedToday <= config.maxVideosPerDay)
       => videosCreatedToday' <= config'.maxVideosPerDay]_vars

\* the call has made its temporary directory and has not reached its end
WorkingInTempDir(job) ==
  /\ job.producer \in TempDirProducers
  /\ job.pc \in {"voiceover", "visuals", "thumbnail", "assembling"}

\* C33: the temporary directory of a createVideo call that is still in
\* flight is on disk: the daily cleanup does not remove it under the call.
C33_TempDirKeptWhileInFlight ==
  \A j \in Jobs : WorkingInTempDir(jobs[j]) => j \in tempDirs


\* the steps in which a scheduler control route answered
RouteAnswers == StartAnswers \cup StopAnswers

\* C35: after bootstrap and any sequence of POST /scheduler/start and
\* POST /scheduler/stop the scheduler holds the five cron tasks that one
\* initialize() registers: no route leaves it with more.
C35_FiveTasksRegistered ==
  [][event' \in RouteAnswers => tasks' <= TasksPerInit]_vars

\* C34: status.isRunning, which getStatus() reports, says whether the cron
\* tasks are started: with tasks registered it is true exactly when they
\* are started, whatever production runs begin or end.
C34_IsRunningMeansStarted ==
  tasks > 0 => (status.isRunning <=> startedTasks > 0)

\* an automatedVideoUpload body ends without an upload counted: it failed
UploadFails ==
  /\ BagCardinality(uploads') < BagCardinality(uploads)
  /\ stats'.totalUploaded = stats.totalUploaded

\* C36: a failed automatedVideoUpload run adds exactly one to stats.errors,
\* whichever step failed, and a successful one leaves stats.errors as it is.
C36_OneErrorPerFailedRun ==
  [][/\ UploadFails => stats'.errors = stats.errors + 1
     /\ stats'.totalUploaded > stats.totalUploaded
          => stats'.errors = stats.errors]_vars


\* C37: generateBackgroundImages(niche, count) returns exactly count image
\* paths, the k-th one for image k, whatever happened to each image.
C37_CountImagesInOrder ==
  backgrounds.pc = "returned"
    => /\ Len(backgrounds.images) = backgrounds.count
       /\ \A k \in 1..Len(backgrounds.images) :
            backgrounds.images[k].index = k

\* the assemblers that give every visual to the encoder as an input
InputAssemblers == {"youtubeService", "part_004"}

\* the input the encoder takes the output audio from (index from 0)
MappedAudioInputs(command) ==
  {command.inputs[m + 1] : m \in command.mapAudio}

\* C38: for a non-empty list of n visuals the command has the visuals as
\* inputs 0..n-1 in list order and the audio track as input n, and the
\* output audio is mapped from input n, which is the audio track.
C38_AudioMappedFromInputN ==
  (/\ assembly.producer \in InputAssemblers
   /\ assembly.pc # "idle"
   /\ Len(assembly.visuals) > 0)
    => LET n == Len(assembly.visuals)
           command == assembly.command
       IN /\ Len(command.inputs) = n + 1
          /\ \A k \in 1..n :
               command.inputs[k] =
                 [kind |-> "visual", path |-> assembly.visuals[k]]
          /\ command.inputs[n + 1].kind = "audio"
          /\ command.mapAudio = {n}
          /\ \A input \in MappedAudioInputs(command) : input.kind = "audio"

C38_Witness ==
  /\ assembly.producer = "youtubeService"
  /\ assembly.pc = "done"
  /\ assembly.visuals = <<1, 2>>
  /\ assembly.command.mapAudio = {2}
====
